---- MODULE Spec2Model ----
(***************************************************************************)
(* Model of src/message/mod.rs of ssdp-rs: the local address enumeration   *)
(* (get_local_addrs), the filtering traversal (map_local) and the          *)
(* connector construction closure (all_local_connectors).                  *)
(*                                                                         *)
(* A socket address is a record [ver, scope, port]: the IP is the pair     *)
(* (ver, scope), classified the way std's is_loopback()/is_global() would  *)
(* classify it; port is the port the operating system reported.            *)
(***************************************************************************)
EXTENDS Integers, Sequences, FiniteSets, TLC

\* ---------------------------------------------------------------- bounds
MaxIfaces == 3

\* ------------------------------------------------------------- constants
UPNP_MULTICAST_PORT == 1900
UPNP_MULTICAST_TTL == 2

\* Option<u32>: None is modelled as -1
NoTtl == -1
Ttls == {NoTtl, UPNP_MULTICAST_TTL}

IpVersionMode == {"V4Only", "V6Only", "Any"}

\* io::Error values the operating system may report
IoErrors == {"PermissionDenied", "AddrInUse"}

\* --------------------------------------------------------------- addresses
SockAddr(v, s, p) == [ver |-> v, scope |-> s, port |-> p]

\* iface.addr == None
NoAddr == SockAddr(0, "none", 0)

Iface(k, a) == [kind |-> k, addr |-> a]

\* The interfaces a host may list (ifaces::Interface::get_all()).
IfacePool ==
    { Iface("Ipv4", SockAddr(4, "loopback", 0)),
      Iface("Ipv4", SockAddr(4, "private", 0)),
      Iface("Ipv4", SockAddr(4, "global", UPNP_MULTICAST_PORT)),
      Iface("Ipv6", SockAddr(6, "loopback", 0)),
      Iface("Ipv6", SockAddr(6, "linklocal", UPNP_MULTICAST_PORT)),
      Iface("Ipv6", SockAddr(6, "global", 0)),
      Iface("Link", NoAddr),
      Iface("Packet", SockAddr(4, "private", 0)) }

\* [127.0.0.1, 192.168.1.5, ::1, FE80::1, 2001:db8::1], one interface each
ScenarioIfaces ==
    << Iface("Ipv4", SockAddr(4, "loopback", 0)),
       Iface("Ipv4", SockAddr(4, "private", 0)),
       Iface("Ipv6", SockAddr(6, "loopback", 0)),
       Iface("Ipv6", SockAddr(6, "linklocal", 0)),
       Iface("Ipv6", SockAddr(6, "global", 0)) >>

\* a rejected address among four qualifying ones
MixedIfaces ==
    << Iface("Ipv4", SockAddr(4, "private", 0)),
       Iface("Ipv6", SockAddr(6, "loopback", 0)),
       Iface("Ipv6", SockAddr(6, "linklocal", 0)),
       Iface("Ipv4", SockAddr(4, "global", 0)),
       Iface("Ipv6", SockAddr(6, "linklocal", UPNP_MULTICAST_PORT)) >>

IfaceTables == UNION { [1..n -> IfacePool] : n \in 0..MaxIfaces }

\* Ipv4Addr::is_loopback / Ipv6Addr::is_loopback
IsLoopback(a) == a.scope = "loopback"

\* Ipv6Addr::is_global
IsGlobal(a) == a.scope = "global"

\* ------------------------------------------------------------ get_local_addrs
\* variant: the packet-capture filter is missing
NotPacket_All(i) == i.kind = i.kind

\* .filter(|iface| iface.kind != ifaces::Kind::Packet)
NotPacket(i) == i.kind # "Packet"

\* .filter_map(|iface| iface.addr)
RECURSIVE FilterMapAddr(_)
FilterMapAddr(s) ==
    IF s = <<>> THEN <<>>
    ELSE IF Head(s).addr # NoAddr
         THEN <<Head(s).addr>> \o FilterMapAddr(Tail(s))
         ELSE FilterMapAddr(Tail(s))

get_local_addrs(table) == FilterMapAddr(SelectSeq(table, NotPacket))

\* ------------------------------------------------------------------ map_local
\* variant: the V6 arm does not test is_loopback()
MapLocalAccepts_NoV6Loopback(a) ==
    \/ a.ver = 4 /\ ~IsLoopback(a)
    \/ a.ver = 6 /\ ~IsGlobal(a)

\* variant: the V6 arm does not test is_global()
MapLocalAccepts_NoV6Global(a) ==
    \/ a.ver = 4 /\ ~IsLoopback(a)
    \/ a.ver = 6 /\ ~IsLoopback(a)

\* variant: the V4 arm tests is_global() as well
MapLocalAccepts_V4Global(a) ==
    \/ a.ver = 4 /\ ~IsLoopback(a) /\ ~IsGlobal(a)
    \/ a.ver = 6 /\ ~IsLoopback(a) /\ ~IsGlobal(a)

\* the two guarded match arms of map_local; everything else falls to `_ => ()`
MapLocalAccepts(a) ==
    \/ a.ver = 4 /\ ~IsLoopback(a)
    \/ a.ver = 6 /\ ~IsLoopback(a) /\ ~IsGlobal(a)

\* ------------------------------------------------------- all_local_connectors
\* variant: the (Any, V6) pattern is missing from the second arm
ClosureMatches_NoAnyV6(f, a) ==
    \/ f \in {"V4Only", "Any"} /\ a.ver = 4
    \/ f \in {"V6Only"} /\ a.ver = 6

\* variant: the closure constructs a connector whatever the policy
ClosureMatches_Always(f, a) == a.ver \in {4, 6}

\* the match arms of the closure that construct a connector; `_ => Ok(None)`
ClosureMatches(f, a) ==
    \/ f \in {"V4Only", "Any"} /\ a.ver = 4
    \/ f \in {"V6Only", "Any"} /\ a.ver = 6

\* the address handed to UdpConnector::new: (*n.ip(), 0) for V4, n for V6
BindAddr(a) ==
    IF a.ver = 4 THEN SockAddr(a.ver, a.scope, 0) ELSE a

Connector(a, t) == [local |-> BindAddr(a), ttl |-> t]

\* ---------------------------------------------------------------- results
NoResult == [tag |-> "none", val |-> <<>>, err |-> ""]
Ok(v) == [tag |-> "ok", val |-> v, err |-> ""]
Err(e) == [tag |-> "err", val |-> <<>>, err |-> e]

VARIABLES
    ifaces,      \* the host's interface table, fixed during a behaviour
    pc,          \* "idle", "loop" (inside map_local's for) or "returned"
    multicast_ttl, filter,   \* arguments of the current call
    enum_res,    \* outcome of get_local_addrs() in the current call
    addrs_iter,  \* the vector map_local iterates over
    idx,         \* position of the for loop in addrs_iter
    obj_list,    \* connectors pushed so far
    attempts,    \* UdpConnector::new calls of the current call, in order
    result,      \* what all_local_connectors returned
    done         \* per policy: bound addresses of the last successful call

vars == <<ifaces, pc, multicast_ttl, filter, enum_res, addrs_iter, idx,
          obj_list, attempts, result, done>>

\* bound addresses of a policy's last successful call
NotRun == [run |-> FALSE, addrs |-> <<>>]
Ran(s) == [run |-> TRUE, addrs |-> s]

Init ==
    /\ ifaces \in IfaceTables \cup {ScenarioIfaces, MixedIfaces}
    /\ pc = "idle"
    /\ multicast_ttl = NoTtl
    /\ filter = "Any"
    /\ enum_res = NoResult
    /\ addrs_iter = <<>>
    /\ idx = 1
    /\ obj_list = <<>>
    /\ attempts = <<>>
    /\ result = NoResult
    /\ done = [p \in IpVersionMode |-> NotRun]

\* all_local_connectors(t, f) is called; get_local_addrs() succeeds
CallEnumOk(t, f) ==
    /\ pc \in {"idle", "returned"}
    /\ multicast_ttl' = t
    /\ filter' = f
    /\ enum_res' = Ok(get_local_addrs(ifaces))
    /\ addrs_iter' = get_local_addrs(ifaces)
    /\ idx' = 1
    /\ obj_list' = <<>>
    /\ attempts' = <<>>
    /\ result' = NoResult
    /\ pc' = "loop"
    /\ UNCHANGED <<ifaces, done>>

\* variant: a failed enumeration is taken for an empty address list
CallEnumErr_Empty(t, f, e) ==
    /\ pc \in {"idle", "returned"}
    /\ multicast_ttl' = t
    /\ filter' = f
    /\ enum_res' = Err(e)
    /\ addrs_iter' = <<>>
    /\ idx' = 1
    /\ obj_list' = <<>>
    /\ attempts' = <<>>
    /\ result' = Ok(<<>>)
    /\ pc' = "returned"
    /\ UNCHANGED <<ifaces, done>>

\* all_local_connectors(t, f) is called; Interface::get_all() fails with e
CallEnumErr(t, f, e) ==
    /\ pc \in {"idle", "returned"}
    /\ multicast_ttl' = t
    /\ filter' = f
    /\ enum_res' = Err(e)
    /\ addrs_iter' = <<>>
    /\ idx' = 1
    /\ obj_list' = <<>>
    /\ attempts' = <<>>
    /\ result' = Err(e)
    /\ pc' = "returned"
    /\ UNCHANGED <<ifaces, done>>

InLoop == pc = "loop" /\ idx <= Len(addrs_iter)

\* `_ => ()` of map_local
Rejected ==
    /\ InLoop
    /\ ~MapLocalAccepts(addrs_iter[idx])
    /\ idx' = idx + 1
    /\ UNCHANGED <<ifaces, pc, multicast_ttl, filter, enum_res, addrs_iter,
                   obj_list, attempts, result, done>>

\* f(&addr) returns Ok(None)
ClosureNone ==
    /\ InLoop
    /\ MapLocalAccepts(addrs_iter[idx])
    /\ ~ClosureMatches(filter, addrs_iter[idx])
    /\ idx' = idx + 1
    /\ UNCHANGED <<ifaces, pc, multicast_ttl, filter, enum_res, addrs_iter,
                   obj_list, attempts, result, done>>

Attempt(i, a, t, o) == [at |-> i, src |-> a, to |-> BindAddr(a), ttl |-> t, out |-> o]

\* UdpConnector::new succeeds, f returns Ok(Some(x)), x is pushed
ConstructOk ==
    /\ InLoop
    /\ MapLocalAccepts(addrs_iter[idx])
    /\ ClosureMatches(filter, addrs_iter[idx])
    /\ attempts' = Append(attempts, Attempt(idx, addrs_iter[idx], multicast_ttl, "ok"))
    /\ obj_list' = Append(obj_list, Connector(addrs_iter[idx], multicast_ttl))
    /\ idx' = idx + 1
    /\ UNCHANGED <<ifaces, pc, multicast_ttl, filter, enum_res, addrs_iter,
                   result, done>>

\* variant: a failed construction is skipped and the loop goes on
ConstructErr_Skip(e) ==
    /\ InLoop
    /\ MapLocalAccepts(addrs_iter[idx])
    /\ ClosureMatches(filter, addrs_iter[idx])
    /\ attempts' = Append(attempts, Attempt(idx, addrs_iter[idx], multicast_ttl, e))
    /\ idx' = idx + 1
    /\ UNCHANGED <<ifaces, pc, multicast_ttl, filter, enum_res, addrs_iter,
                   obj_list, result, done>>

\* UdpConnector::new fails with e: try! leaves the closure and map_local
ConstructErr(e) ==
    /\ InLoop
    /\ MapLocalAccepts(addrs_iter[idx])
    /\ ClosureMatches(filter, addrs_iter[idx])
    /\ attempts' = Append(attempts, Attempt(idx, addrs_iter[idx], multicast_ttl, e))
    /\ obj_list' = <<>>
    /\ result' = Err(e)
    /\ pc' = "returned"
    /\ UNCHANGED <<ifaces, multicast_ttl, filter, enum_res, addrs_iter, idx, done>>

Locals(s) == [i \in 1..Len(s) |-> s[i].local]

\* variant: an empty obj_list is reported as an error
ReturnOk_EmptyIsErr ==
    /\ pc = "loop"
    /\ idx > Len(addrs_iter)
    /\ result' = IF obj_list = <<>> THEN Err("NotFound") ELSE Ok(obj_list)
    /\ done' = done
    /\ pc' = "returned"
    /\ UNCHANGED <<ifaces, multicast_ttl, filter, enum_res, addrs_iter, idx,
                   obj_list, attempts>>

\* Ok(obj_list)
ReturnOk ==
    /\ pc = "loop"
    /\ idx > Len(addrs_iter)
    /\ result' = Ok(obj_list)
    /\ done' = [done EXCEPT ![filter] = Ran(Locals(obj_list))]
    /\ pc' = "returned"
    /\ UNCHANGED <<ifaces, multicast_ttl, filter, enum_res, addrs_iter, idx,
                   obj_list, attempts>>

Next ==
    \/ \E t \in Ttls, f \in IpVersionMode : CallEnumOk(t, f)
    \/ \E t \in Ttls, f \in IpVersionMode, e \in IoErrors : CallEnumErr(t, f, e)
    \/ Rejected
    \/ ClosureNone
    \/ ConstructOk
    \/ \E e \in IoErrors : ConstructErr(e)
    \/ ReturnOk

Spec == Init /\ [][Next]_vars

\* ======================================================================
\* Properties
\* ======================================================================
Ip(a) == <<a.ver, a.scope>>

\* an address that no filter of the Connector Factory rejects under policy f
Survives(a, f) ==
    /\ a.scope # "loopback"
    /\ ~(a.ver = 6 /\ a.scope = "global")
    /\ (f = "V4Only" => a.ver = 4)
    /\ (f = "V6Only" => a.ver = 6)

\* indices of the Address Source's output that survive under the current policy
SurvivorIdx == {i \in 1..Len(addrs_iter) : Survives(addrs_iter[i], filter)}

\* position of index i among the members of S, counted from 1
Rank(S, i) == Cardinality({j \in S : j <= i})

Count(s, x) == Cardinality({i \in 1..Len(s) : s[i] = x})
Range(s) == {s[i] : i \in 1..Len(s)}

AnyFailed == \E k \in 1..Len(attempts) : attempts[k].out # "ok"

\* C1: a successful call never returns an endpoint bound to a loopback
\* address, IPv4 or IPv6, for every address list, TTL and policy.
C1_NoLoopbackEndpoint ==
    result.tag = "ok" =>
        \A i \in 1..Len(result.val) : result.val[i].local.scope # "loopback"

C1_Witness ==
    /\ result.tag = "ok"
    /\ result.val # <<>>
    /\ \E i \in 1..Len(addrs_iter) : Ip(addrs_iter[i]) = <<4, "loopback">>
    /\ \E i \in 1..Len(addrs_iter) : Ip(addrs_iter[i]) = <<6, "loopback">>

\* C2: no endpoint is produced for a global-scope IPv6 address under any
\* policy; only non-loopback, non-global IPv6 addresses reach construction.
C2_NoGlobalV6Endpoint ==
    /\ \A k \in 1..Len(attempts) :
          attempts[k].src.ver = 6 =>
              attempts[k].src.scope \notin {"loopback", "global"}
    /\ \A i \in 1..Len(obj_list) : Ip(obj_list[i].local) # <<6, "global">>
    /\ \A i \in 1..Len(result.val) : Ip(result.val[i].local) # <<6, "global">>

C2_Witness ==
    /\ result.tag = "ok"
    /\ \E i \in 1..Len(addrs_iter) : Ip(addrs_iter[i]) = <<6, "global">>
    /\ \E i \in 1..Len(result.val) : result.val[i].local.ver = 6

\* C3: for a fixed address list and successful constructions, V4Only returns
\* only IPv4 endpoints, V6Only only IPv6 endpoints, and the bound addresses
\* under Any are those under V4Only plus those under V6Only, each as often as
\* there, none missing.
C3_PolicyPartition ==
    /\ \A a \in Range(done["V4Only"].addrs) : a.ver = 4
    /\ \A a \in Range(done["V6Only"].addrs) : a.ver = 6
    /\ (\A p \in IpVersionMode : done[p].run) =>
          /\ Range(done["Any"].addrs) =
                 Range(done["V4Only"].addrs) \cup Range(done["V6Only"].addrs)
          /\ \A x \in Range(done["Any"].addrs) :
                 Count(done["Any"].addrs, x) =
                     Count(done["V4Only"].addrs, x) + Count(done["V6Only"].addrs, x)

C3_Witness ==
    /\ \A p \in IpVersionMode : done[p].run
    /\ done["V4Only"].addrs # <<>>
    /\ done["V6Only"].addrs # <<>>
    /\ Len(done["Any"].addrs) >= 3

C5_PortZeroAndTtl ==
    \A k \in 1..Len(attempts) :
        /\ Ip(attempts[k].to) = Ip(attempts[k].src)
        /\ attempts[k].to.port = 0
        /\ attempts[k].ttl = multicast_ttl

\* C6: a failed construction fails the whole call with that error; the caller
\* receives no endpoint, and a successful call has constructed every address
\* it attempted.
C6_AllOrNothing ==
    /\ AnyFailed =>
          /\ pc = "returned"
          /\ result = Err(attempts[Len(attempts)].out)
          /\ obj_list = <<>>
    /\ result.tag = "ok" =>
          /\ ~AnyFailed
          /\ Len(result.val) = Len(attempts)
          /\ Len(result.val) = Cardinality(SurvivorIdx)

C6_Witness ==
    /\ AnyFailed
    /\ Len(attempts) >= 2
    /\ \E i \in SurvivorIdx : i > idx
    /\ result.tag = "err"

\* C7: when the Address Source fails, the call fails with the same error
\* and attempts no construction.
C7_EnumFailurePropagates ==
    enum_res.tag = "err" =>
        /\ pc = "returned"
        /\ result = Err(enum_res.err)
        /\ attempts = <<>>
        /\ obj_list = <<>>

C7_Witness ==
    /\ enum_res.tag = "err"
    /\ result.tag = "err"
    /\ ifaces # <<>>
    /\ filter = "V6Only"
    /\ multicast_ttl = UPNP_MULTICAST_TTL

\* C8: when the Address Source succeeds and no address qualifies (the list
\* is empty or every address is rejected), the call returns success with an
\* empty sequence.
C8_EmptyIsOk ==
    (pc = "returned" /\ enum_res.tag = "ok" /\ SurvivorIdx = {}) =>
        result = Ok(<<>>)

C8_Witness ==
    /\ pc = "returned"
    /\ enum_res.tag = "ok"
    /\ addrs_iter # <<>>
    /\ SurvivorIdx = {}
    /\ result = Ok(<<>>)

\* interfaces of the table that contribute an address
UsableIdx == {i \in 1..Len(ifaces) : ifaces[i].kind # "Packet" /\ ifaces[i].addr # NoAddr}

\* C9: the Address Source returns the addresses of the non-packet-capture
\* interfaces that have one, in the order the interfaces were listed, and
\* nothing else; with no such interface it returns an empty sequence.
C9_AddressSource ==
    enum_res.tag = "ok" =>
        /\ Len(enum_res.val) = Cardinality(UsableIdx)
        /\ \A i \in UsableIdx : enum_res.val[Rank(UsableIdx, i)] = ifaces[i].addr
        /\ addrs_iter = enum_res.val

C9_Witness ==
    /\ enum_res.tag = "ok"
    /\ \E i \in 1..Len(ifaces) : ifaces[i].kind = "Packet" /\ ifaces[i].addr # NoAddr
    /\ \E i \in 1..Len(ifaces) : ifaces[i].addr = NoAddr
    /\ Len(enum_res.val) = 1

AttemptedIdx == {attempts[k].at : k \in 1..Len(attempts)}

\* C10: constructions are attempted only for surviving addresses, in
\* enumeration order, none after the first failure; a failed call whose
\* enumeration succeeded fails with the error of the first surviving address
\* whose construction fails.
C10_AttemptOrder ==
    /\ \A k \in 1..Len(attempts) :
          /\ attempts[k].at \in SurvivorIdx
          /\ attempts[k].src = addrs_iter[attempts[k].at]
          /\ k < Len(attempts) => attempts[k].out = "ok"
          /\ k < Len(attempts) => attempts[k].at < attempts[k + 1].at
    /\ pc = "loop" => AttemptedIdx = {i \in SurvivorIdx : i < idx}
    /\ (pc = "returned" /\ enum_res.tag = "ok" /\ result.tag = "err") =>
          /\ attempts # <<>>
          /\ attempts[Len(attempts)].at = idx
          /\ attempts[Len(attempts)].out = result.err
          /\ AttemptedIdx = {i \in SurvivorIdx : i <= idx}
    /\ (pc = "returned" /\ result.tag = "ok") => AttemptedIdx = SurvivorIdx

C10_Witness ==
    /\ pc = "returned"
    /\ enum_res.tag = "ok"
    /\ result.tag = "err"
    /\ Len(attempts) >= 2
    /\ \E i \in 1..Len(addrs_iter) : i < idx /\ i \notin SurvivorIdx
    /\ \E i \in SurvivorIdx : i > idx

====
